---------------------------- MODULE Spec2Model ----------------------------
(***************************************************************************)
(* A model of Arrata-LIB: the dice engine (src/dice.rs, roll_stat) and the *)
(* textual notation of stats and obstacles (src/character.rs,              *)
(* src/obstacle.rs).                                                       *)
(*                                                                         *)
(* roll_stat is modelled as a small process: the prologue (Begin), one     *)
(* draw of the random source per loop iteration (Draw), the body of the    *)
(* iteration (Score) and the final return (Return).  The parsers are pure  *)
(* functions, modelled as operators over strings of characters that carry  *)
(* their UTF-8 width, and applied by the actions of ParseSpec.             *)
(***************************************************************************)
EXTENDS Integers, Sequences, FiniteSets, TLC

(***************************************************************************)
(* Bounds of the model.                                                    *)
(***************************************************************************)
\* The largest usize of the modelled machine (2^64 - 1 on the real one).
UsizeMax == 31
\* Dice quantities explored freely: 0..MaxQuantity, plus the edges of the word.
MaxQuantity == 2
\* Advantage and disadvantage levels explored freely: 0..MaxLevel, plus UsizeMax.
MaxLevel == 3
\* Faces drawn freely (beyond a scripted prefix) in one call.
MaxDraws == 4
\* Longest input text handed to the parsers, in characters.
MaxLen == 3

\* The largest value of rand::random::<u8>().
U8Max == 255

\* isize::MAX of the modelled machine: the byte limit of a Vec allocation.
IsizeMax == UsizeMax \div 2

\* Wrapping usize arithmetic (a build without overflow checks).
Wrap(x) == x % (UsizeMax + 1)

(***************************************************************************)
(* character.rs: Quality and Stat.                                         *)
(***************************************************************************)
Qualities == {"Basic", "Adept", "Superb"}

\* `stat.quality as u8`: the discriminant of the enum is the threshold.
QualityThreshold(q) ==
    CASE q = "Basic" -> 4
      [] q = "Adept" -> 3
      [] q = "Superb" -> 2

\* Option<usize>
Some(x) == <<x>>

Stat(name, quality, quantity) ==
    [name |-> name, quality |-> quality, quantity |-> quantity, checks |-> Some(0)]

\* Stat::new(name)
StatNew(name) == Stat(name, "Basic", 1)

VARIABLES
    \* roll_stat: the arguments
    stat, advantage, disadvantage,
    \* the faces the random source is scripted to produce first (<<>>: none)
    script,
    \* roll_stat: the locals
    quantity, successes, failures, results, result,
    \* roll_stat: where the call is: "idle", "call", "loop", "body",
    \* "early" (returned at line 114), "done" (returned at line 138), "panic"
    pc,
    \* the parsers: the input text, the parsed Stat, its Display text, the Stat
    \* parsed from that text, the parsed Obstacle, and where the run is
    value, parsed, text, reparsed, obstacle, ppc

rollVars == <<stat, advantage, disadvantage, script, quantity, successes,
              failures, results, result, pc>>
parseVars == <<value, parsed, text, reparsed, obstacle, ppc>>
vars == <<rollVars, parseVars>>

NoStat == [name |-> <<>>, quality |-> "none", quantity |-> 0, checks |-> <<>>]
NoObstacle == -1

(***************************************************************************)
(* dice.rs: roll_stat.                                                     *)
(***************************************************************************)
\* (rand::random::<u8>() % 6) + 1
Faces == {(r % 6) + 1 : r \in 0..U8Max}

\* The dice that levels of advantage beyond the first add.
ExtraDiceWholeLevel(adv) == IF adv > 0 THEN adv ELSE 0
ExtraDice(adv) == IF adv > 0 THEN adv - 1 ELSE 0

\* The dice that levels of disadvantage beyond the first remove.
RemovedDiceWholeLevel(dis) == IF dis > 0 THEN dis ELSE 0
RemovedDice(dis) == IF dis > 0 THEN dis - 1 ELSE 0

\* "No dice to roll!"
NoDiceOffByOne(dis, q) == dis > 0 /\ dis - 1 > q + 1
NoDice(dis, q) == dis > 0 /\ dis - 1 > q

\* The success tally after one face.
SuccessesAfterNoPenalty(s, adv, dis, r, threshold) ==
    s + (IF r >= threshold THEN 1 ELSE 0)
SuccessesAfter(s, adv, dis, r, threshold) ==
    LET penalised == IF adv > 0 /\ r = 6 THEN s
                     ELSE IF dis > 0 /\ r = 1 THEN s - 1
                     ELSE s
    IN  penalised + (IF r >= threshold THEN 1 ELSE 0)

\* The failure tally after one face.
FailuresAfter(f, r, threshold) == f + (IF r < threshold THEN 1 ELSE 0)

\* The remaining-to-draw counter before the decrement that ends an iteration.
ExplodedOnFive(q, adv, r) == IF adv > 0 /\ r >= 5 THEN q + 1 ELSE q
Exploded(q, adv, r) == IF adv > 0 /\ r = 6 THEN q + 1 ELSE q

\* The prologue: the effective dice count, the early return, the allocation.
\* An overflowing `quantity += advantage - 1` panics in a build with overflow
\* checks and wraps in one without; Vec::with_capacity panics ("capacity
\* overflow") above isize::MAX bytes.
Begin ==
    /\ pc = "call"
    /\ \E checked \in BOOLEAN :
         LET sum == stat.quantity + ExtraDice(advantage)
             q1  == Wrap(sum)
             q2  == q1 - RemovedDice(disadvantage)
         IN  IF sum > UsizeMax /\ checked
             THEN pc' = "panic" /\ quantity' = quantity
             ELSE IF NoDice(disadvantage, q1)
             THEN pc' = "early" /\ quantity' = q1
             ELSE IF q2 > IsizeMax
             THEN pc' = "panic" /\ quantity' = q2
             ELSE pc' = "loop" /\ quantity' = q2
    /\ UNCHANGED <<stat, advantage, disadvantage, script, successes, failures,
                   results, result, parseVars>>

\* `while quantity > 0` and the draw of one face.
Draw ==
    /\ pc = "loop"
    /\ quantity > 0
    /\ Len(results) < Len(script) + MaxDraws
    /\ \E face \in Faces :
         /\ Len(results) < Len(script) => face = script[Len(results) + 1]
         /\ result' = face
    /\ pc' = "body"
    /\ UNCHANGED <<stat, advantage, disadvantage, script, quantity, successes,
                   failures, results, parseVars>>

\* The remaining-to-draw counter after one iteration, or -1 for a panic
\* (an overflowing += 1 or an underflowing -= 1 in a build with overflow checks).
QuantityAfter(q, adv, r, checked) ==
    LET up == Exploded(q, adv, r)
    IN  IF checked /\ (up > UsizeMax \/ Wrap(up) - 1 < 0) THEN -1
        ELSE Wrap(Wrap(up) - 1)

\* The body of one iteration.
Score ==
    /\ pc = "body"
    /\ \E checked \in BOOLEAN :
         LET q == QuantityAfter(quantity, advantage, result, checked)
         IN  IF q < 0
             THEN /\ pc' = "panic"
                  /\ UNCHANGED <<quantity, successes, failures, results>>
             ELSE /\ pc' = "loop"
                  /\ quantity' = q
                  /\ successes' = SuccessesAfter(successes, advantage, disadvantage,
                                                 result, QualityThreshold(stat.quality))
                  /\ failures' = FailuresAfter(failures, result,
                                               QualityThreshold(stat.quality))
                  /\ results' = Append(results, result)
    /\ UNCHANGED <<stat, advantage, disadvantage, script, result, parseVars>>

\* The loop ends and the accumulated RollResult is returned.
Return ==
    /\ pc = "loop"
    /\ quantity = 0
    /\ pc' = "done"
    /\ UNCHANGED <<stat, advantage, disadvantage, script, quantity, successes,
                   failures, results, result, parseVars>>

\* The inputs explored: small quantities and levels, and the edges of the word.
Quantities == (0..MaxQuantity) \cup {IsizeMax, IsizeMax + 1, UsizeMax - 1, UsizeMax}
Levels == (0..MaxLevel) \cup {UsizeMax}

\* The rolls worked out in the module documentation of dice.rs, each with the
\* faces it says are drawn; the faces of the !3B4 example also under !1B4.
DocumentedRolls ==
    { [stat |-> Stat(<<>>, "Basic", 4), advantage |-> 0, disadvantage |-> 0,
       script |-> <<1, 2, 3, 4>>],
      [stat |-> Stat(<<>>, "Basic", 4), advantage |-> 3, disadvantage |-> 0,
       script |-> <<2, 2, 4, 6, 3>>],
      [stat |-> Stat(<<>>, "Basic", 4), advantage |-> 1, disadvantage |-> 0,
       script |-> <<2, 2, 4, 6, 3>>],
      [stat |-> Stat(<<>>, "Adept", 8), advantage |-> 0, disadvantage |-> 2,
       script |-> <<1, 1, 4, 4, 4, 6, 6>>],
      [stat |-> Stat(<<>>, "Superb", 10), advantage |-> 1, disadvantage |-> 1,
       script |-> <<1, 2, 2, 2, 3, 3, 4, 4, 5, 6, 6, 5>>] }

FreeRolls ==
    { [stat |-> Stat(<<>>, ql, qn), advantage |-> a, disadvantage |-> d,
       script |-> <<>>] :
      ql \in Qualities, qn \in Quantities, a \in Levels, d \in Levels }

ParseIdle ==
    /\ value = <<>>
    /\ parsed = NoStat
    /\ text = <<>>
    /\ reparsed = NoStat
    /\ obstacle = NoObstacle
    /\ ppc = "idle"

RollEntry(calls) ==
    /\ \E c \in calls :
         /\ stat = c.stat
         /\ advantage = c.advantage
         /\ disadvantage = c.disadvantage
         /\ script = c.script
    /\ quantity = 0
    /\ successes = 0
    /\ failures = 0
    /\ results = <<>>
    /\ result = 0
    /\ pc = "call"

Init == RollEntry(FreeRolls \cup DocumentedRolls) /\ ParseIdle

Next == Begin \/ Draw \/ Score \/ Return

Spec == Init /\ [][Next]_vars


(***************************************************************************)
(* The termination view of roll_stat: the same call with the tallies and   *)
(* the recorded faces left out.  The loop's control reads only `quantity`, *)
(* `advantage` and the face just drawn, so this projection has the same    *)
(* runs of the loop, and a run that never ends is a cycle of it.           *)
(***************************************************************************)
ScoreCounter ==
    /\ pc = "body"
    /\ \E checked \in BOOLEAN :
         LET q == QuantityAfter(quantity, advantage, result, checked)
         IN  IF q < 0
             THEN pc' = "panic" /\ quantity' = quantity
             ELSE pc' = "loop" /\ quantity' = q
    /\ UNCHANGED <<stat, advantage, disadvantage, script, successes, failures,
                   results, result, parseVars>>

LoopInit == RollEntry(FreeRolls) /\ ParseIdle

LoopNext == Begin \/ Draw \/ ScoreCounter \/ Return

\* The call is never suspended: whatever step it can take, it takes.
LoopSpec == LoopInit /\ [][LoopNext]_vars /\ WF_vars(LoopNext)

(***************************************************************************)
(* Strings.  A String is a sequence of characters; a character is named by *)
(* itself or, outside ASCII, by its code point, and has a UTF-8 width.     *)
(***************************************************************************)
DigitChars == <<"0", "1", "2", "3", "4", "5", "6", "7", "8", "9">>

\* U+00E9 (e acute) is two bytes long in UTF-8, U+20AC (the euro sign) three.
Utf8Len(c) ==
    CASE c = "U+00E9" -> 2
      [] c = "U+20AC" -> 3
      [] OTHER -> 1

\* The characters of the input texts.
Alphabet == {"A", "s", "B", "O", "b", "+", "0", "2", "9", "U+00E9", "U+20AC"}

RECURSIVE ByteLen(_)
ByteLen(s) == IF s = <<>> THEN 0 ELSE Utf8Len(Head(s)) + ByteLen(Tail(s))

\* str::is_char_boundary
IsCharBoundary(s, i) == \E k \in 0..Len(s) : ByteLen(SubSeq(s, 1, k)) = i

\* &s[i..] panics unless i is a char boundary of s (the end included).
SliceFromPanics(s, i) == ~IsCharBoundary(s, i)

SliceFrom(s, i) ==
    LET k == CHOOSE k \in 0..Len(s) : ByteLen(SubSeq(s, 1, k)) = i
    IN  SubSeq(s, k + 1, Len(s))

DigitValue(c) == (CHOOSE d \in 1..10 : DigitChars[d] = c) - 1
IsDigit(c) == \E d \in 1..10 : DigitChars[d] = c

\* The digits of str::parse::<usize>, most significant first: -1 is Err
\* (InvalidDigit, or PosOverflow above usize::MAX).
RECURSIVE ParseDigits(_, _)
ParseDigits(s, acc) ==
    IF s = <<>> THEN acc
    ELSE IF ~IsDigit(Head(s)) THEN -1
    ELSE LET n == acc * 10 + DigitValue(Head(s))
         IN  IF n > UsizeMax THEN -1 ELSE ParseDigits(Tail(s), n)

\* str::parse::<usize>: Err (-1) on the empty string, a lone sign, a "-",
\* a character that is no digit, or overflow; one leading "+" is accepted.
ParseUsize(s) ==
    IF s = <<>> \/ s = <<"+">> \/ s = <<"-">> THEN -1
    ELSE IF Head(s) = "+" THEN ParseDigits(Tail(s), 0)
    ELSE ParseDigits(s, 0)

\* .unwrap_or(1)
UnwrapOr1(r) == IF r < 0 THEN 1 ELSE r

\* Display of a usize: decimal, no sign, no leading zeros.
RECURSIVE UsizeDisplay(_)
UsizeDisplay(n) ==
    IF n < 10 THEN <<DigitChars[n + 1]>>
    ELSE UsizeDisplay(n \div 10) \o <<DigitChars[(n % 10) + 1]>>

(***************************************************************************)
(* character.rs: impl From<String> for Stat, impl Display for Stat.        *)
(***************************************************************************)
QualityOf(first_char) ==
    CASE first_char \in {"A", "a"} -> "Adept"
      [] first_char \in {"S", "s"} -> "Superb"
      [] OTHER -> "Basic"

StatFromPanics(v) == v # <<>> /\ SliceFromPanics(v, 1)

StatFromString(v) ==
    IF v # <<>>
    THEN Stat(<<>>, QualityOf(Head(v)), UnwrapOr1(ParseUsize(SliceFrom(v, 1))))
    ELSE StatNew(<<>>)

StatDisplay(st) ==
    CASE st.quality = "Basic" -> <<"B">> \o UsizeDisplay(st.quantity)
      [] st.quality = "Adept" -> <<"A">> \o UsizeDisplay(st.quantity)
      [] st.quality = "Superb" -> <<"S">> \o UsizeDisplay(st.quantity)

(***************************************************************************)
(* obstacle.rs: impl From<String> for Obstacle.                            *)
(***************************************************************************)
ObstacleFromPanics(v) == SliceFromPanics(v, 2)

ObstacleFromString(v) == UnwrapOr1(ParseUsize(SliceFrom(v, 2)))

(***************************************************************************)
(* The parsers at work: a text is parsed as a Stat, the Stat formatted and *)
(* the formatted text parsed again; or the text is parsed as an Obstacle.  *)
(***************************************************************************)
StatFrom ==
    /\ ppc = "input"
    /\ IF StatFromPanics(value)
       THEN ppc' = "stat_panic" /\ parsed' = parsed
       ELSE ppc' = "parsed" /\ parsed' = StatFromString(value)
    /\ UNCHANGED <<value, text, reparsed, obstacle, rollVars>>

StatFmt ==
    /\ ppc = "parsed"
    /\ text' = StatDisplay(parsed)
    /\ ppc' = "formatted"
    /\ UNCHANGED <<value, parsed, reparsed, obstacle, rollVars>>

StatFromText ==
    /\ ppc = "formatted"
    /\ IF StatFromPanics(text)
       THEN ppc' = "stat_panic" /\ reparsed' = reparsed
       ELSE ppc' = "reparsed" /\ reparsed' = StatFromString(text)
    /\ UNCHANGED <<value, parsed, text, obstacle, rollVars>>

ObstacleFrom ==
    /\ ppc = "input"
    /\ IF ObstacleFromPanics(value)
       THEN ppc' = "obstacle_panic" /\ obstacle' = obstacle
       ELSE ppc' = "obstacle" /\ obstacle' = ObstacleFromString(value)
    /\ UNCHANGED <<value, parsed, text, reparsed, rollVars>>

RECURSIVE Strings(_)
Strings(n) ==
    IF n = 0 THEN {<<>>}
    ELSE LET shorter == Strings(n - 1)
         IN  shorter \cup {Append(s, c) : s \in shorter, c \in Alphabet}

RollIdle ==
    /\ stat = NoStat
    /\ advantage = 0
    /\ disadvantage = 0
    /\ script = <<>>
    /\ quantity = 0
    /\ successes = 0
    /\ failures = 0
    /\ results = <<>>
    /\ result = 0
    /\ pc = "idle"

ParseInit ==
    /\ value \in Strings(MaxLen)
    /\ parsed = NoStat
    /\ text = <<>>
    /\ reparsed = NoStat
    /\ obstacle = NoObstacle
    /\ ppc = "input"
    /\ RollIdle

ParseNext == StatFrom \/ StatFmt \/ StatFromText \/ ObstacleFrom

ParseSpec == ParseInit /\ [][ParseNext]_vars


(***************************************************************************)
(* Properties of roll_stat.                                                *)
(***************************************************************************)
Returned == pc \in {"early", "done"}

Threshold == QualityThreshold(stat.quality)

\* How many of the faces satisfy a condition.
Below(faces, t) == Cardinality({i \in DOMAIN faces : faces[i] < t})
AtLeast(faces, t) == Cardinality({i \in DOMAIN faces : faces[i] >= t})
Equal(faces, f) == Cardinality({i \in DOMAIN faces : faces[i] = f})

IsCall(ql, qn, adv, dis) ==
    /\ stat.quality = ql
    /\ stat.quantity = qn
    /\ advantage = adv
    /\ disadvantage = dis

S10Chain == <<1, 2, 2, 2, 3, 3, 4, 4, 5, 6, 6, 5>>

\* C1: the returned tallies are those of the returned faces: failures counts
\* the faces below the threshold, successes counts the faces at or above it
\* less, under disadvantage, the faces equal to 1; and the three documented
\* rolls end on the documented faces with the documented successes.
C1_TalliesMatchFaces ==
    /\ Returned =>
         /\ failures = Below(results, Threshold)
         /\ successes = AtLeast(results, Threshold)
                          - (IF disadvantage > 0 THEN Equal(results, 1) ELSE 0)
    /\ (Returned /\ IsCall("Basic", 4, 0, 0) /\ script = <<1, 2, 3, 4>>) =>
         results = script /\ successes = 1 /\ failures = 3
    /\ (Returned /\ IsCall("Adept", 8, 0, 2) /\ script = <<1, 1, 4, 4, 4, 6, 6>>) =>
         results = script /\ successes = 3
    /\ (Returned /\ IsCall("Superb", 10, 1, 1) /\ script = S10Chain) =>
         results = script /\ successes = 10

C1_Witness ==
    /\ pc = "done"
    /\ IsCall("Superb", 10, 1, 1)
    /\ results = S10Chain
    /\ successes = 10

\* C2 as stated: with advantage = 0 the returned faces number stat.quantity,
\* whatever the disadvantage.
C2_LenIsQuantity ==
    (Returned /\ advantage = 0) => Len(results) = stat.quantity

\* C2 amended: with advantage = 0 the returned faces number stat.quantity less
\* the disadvantage levels beyond the first (none when those exceed the
\* quantity): never more than stat.quantity, and exactly stat.quantity when
\* disadvantage <= 1.
C2_LenIsReducedQuantity ==
    (Returned /\ advantage = 0) =>
        /\ Len(results) =
             IF disadvantage > 0 /\ disadvantage - 1 > stat.quantity THEN 0
             ELSE stat.quantity - (IF disadvantage > 0 THEN disadvantage - 1 ELSE 0)
        /\ Len(results) <= stat.quantity
        /\ disadvantage <= 1 => Len(results) = stat.quantity

C2_Witness ==
    /\ pc = "done"
    /\ advantage = 0
    /\ disadvantage = 2
    /\ stat.quantity = 2
    /\ Len(results) = 1

DocAdvantageFaces == <<2, 2, 4, 6, 3>>

C4_LoopAlwaysReturns == (pc = "loop") ~> (pc = "done")

\* C4 amended: every call ends (returning, or panicking in the prologue on an
\* overflow) unless advantage is on and, from some draw on, every face is a 6;
\* with advantage = 0 every call ends.
C4_EndsUnlessSixesForever ==
    \/ <>(pc \in {"early", "done", "panic"})
    \/ <>[](advantage > 0 /\ pc \in {"loop", "body"} /\ result = 6)

C4_Witness ==
    /\ pc = "done"
    /\ advantage > 0
    /\ stat.quantity > 0
    /\ result \in 1..5

C9_NoPanicNoOverflow ==
    /\ pc # "panic"
    /\ (pc # "call" /\ advantage > 0) =>
         stat.quantity + (advantage - 1) <= UsizeMax

\* C10: under advantage every 6 adds exactly one die and nothing else does: at
\* the head of the loop the faces drawn and the dice still to draw add up to
\* the starting count plus the 6s drawn, and the faces returned by a roll that
\* was not cut short number the starting count plus the 6s among them.
C10_EverySixOneMoreDie ==
    LET start == stat.quantity + (advantage - 1)
                   - (IF disadvantage > 0 THEN disadvantage - 1 ELSE 0)
    IN  advantage > 0 =>
          /\ pc = "loop" => Len(results) + quantity = start + Equal(results, 6)
          /\ pc = "done" => Len(results) = start + Equal(results, 6)

(***************************************************************************)
(* Properties of the parsers.                                              *)
(***************************************************************************)
\* The error the specification asks of a text too short for its prefix; no
\* outcome of the code.
InvalidFormat == NoObstacle - 1

\* C5: an Obstacle text shorter than 2 characters is answered with
\* InvalidFormat, never with a panic.
C5_ShortObstacleIsInvalidFormat ==
    Len(value) < 2 =>
        /\ ppc # "obstacle_panic"
        /\ ppc = "obstacle" => obstacle = InvalidFormat

\* C6: parsing a Stat never fails: any first character gives a quality (A/a
\* Adept, S/s Superb, any other Basic), the rest of the text the quantity (1
\* when it is no unsigned integer), the empty text B1; the name is empty and
\* checks is Some(0).
C6_StatFromNeverFails ==
    /\ ppc # "stat_panic"
    /\ ppc = "parsed" =>
         /\ parsed.name = <<>>
         /\ parsed.checks = Some(0)
         /\ parsed.quality =
              IF value = <<>> THEN "Basic"
              ELSE IF Head(value) \in {"A", "a"} THEN "Adept"
              ELSE IF Head(value) \in {"S", "s"} THEN "Superb"
              ELSE "Basic"
         /\ parsed.quantity =
              IF value = <<>> THEN 1 ELSE UnwrapOr1(ParseUsize(Tail(value)))

\* C7: for any text, parsing, formatting and parsing again gives the Stat of
\* the first parse.
C7_ParseFormatParse ==
    /\ ppc # "stat_panic"
    /\ ppc = "reparsed" => reparsed = parsed

=============================================================================
